---- MODULE Spec2Model ----
(***************************************************************************)
(* Model of the tide-predictions microservice (bdougherty/tide-predictions) *)
(* as a state machine: the station directory and its periodic refresh, and  *)
(* the request dispatcher with its four route handlers.                     *)
(*                                                                          *)
(* Strings that the code parses (coordinates, station ids) are sequences of *)
(* one-character strings.  Numbers are records [nan, v] where v counts      *)
(* tenths of a degree, so that NaN is a value of its own.                   *)
(*                                                                          *)
(* Requests are handled one at a time: handlers share only tideStations,    *)
(* which they read and never write, while the refresh interleaves with the  *)
(* awaits of a request at every point.  Station names, state, region and    *)
(* the time zone lookup are not modelled.  An unhandled rejection of        *)
(* fetchTideStations leaves the process running.  rq.sent lists every call  *)
(* of send for the request, in order.                                       *)
(***************************************************************************)
EXTENDS Integers, Sequences, FiniteSets, TLC

\* ------------------------------------------------------------------------
\* Bounds of the model
\* ------------------------------------------------------------------------

\* Number of stations in the large upstream directory payload (more than
\* the fan-out limit, so that slice(0, limit) cuts).
NumBig == 11

\* ------------------------------------------------------------------------
\* Program constants
\* ------------------------------------------------------------------------

\* getStationsNear = (lat, lon, limit = 10)
DefaultLimit == 10

\* getStationsNear(lat, lon, 10) in nearHandler
NearLimit == 10

\* fetchPredictionsForTideStation = async (station, days = 2)
DefaultDays == 2

\* getStationPredictions(closestStation, 7)
ClosestDays == 7

\* getStationPredictions(station, 7) in individualStationHandler
StationDays == 7

\* ------------------------------------------------------------------------
\* Numbers and parseFloat
\* ------------------------------------------------------------------------

NaN == [nan |-> TRUE, v |-> 0]

Num(n) == [nan |-> FALSE, v |-> n]

DigitChars == <<"0", "1", "2", "3", "4", "5", "6", "7", "8", "9">>

IsDigit(c) == \E i \in 1..10 : DigitChars[i] = c

DigitVal(c) == (CHOOSE i \in 1..10 : DigitChars[i] = c) - 1

\* Longest prefix of s made of digits.
RECURSIVE DigitPrefix(_)
DigitPrefix(s) ==
    IF s = <<>> \/ ~IsDigit(Head(s)) THEN <<>>
    ELSE <<Head(s)>> \o DigitPrefix(Tail(s))

RECURSIVE DigitsVal(_)
DigitsVal(s) ==
    IF s = <<>> THEN 0
    ELSE DigitsVal(SubSeq(s, 1, Len(s) - 1)) * 10 + DigitVal(s[Len(s)])

Drop(s, n) == SubSeq(s, n + 1, Len(s))

\* JavaScript parseFloat on a string over the characters [.-0-9]: an
\* optional sign, then the longest prefix that is a decimal literal; NaN
\* when that prefix holds no digit.  The value is in tenths (one
\* fractional digit is kept).
ParseFloat(s) ==
    LET neg == s # <<>> /\ Head(s) = "-"
        body == IF neg THEN Tail(s) ELSE s
        ip == DigitPrefix(body)
        rest == Drop(body, Len(ip))
        fp == IF rest # <<>> /\ Head(rest) = "." THEN DigitPrefix(Tail(rest)) ELSE <<>>
        mag == DigitsVal(ip) * 10 + (IF fp = <<>> THEN 0 ELSE DigitVal(fp[1]))
    IN  IF ip = <<>> /\ fp = <<>> THEN NaN
        ELSE Num(IF neg THEN 0 - mag ELSE mag)

\* JavaScript relational operators: any comparison with NaN is false.
Less(a, b) == ~a.nan /\ ~b.nan /\ a.v < b.v

Greater(a, b) == ~a.nan /\ ~b.nan /\ a.v > b.v

\* Decimal text of a natural number / an integer, as upstream sends it.
RECURSIVE NatStr(_)
NatStr(n) ==
    IF n < 10 THEN <<DigitChars[n + 1]>>
    ELSE NatStr(n \div 10) \o <<DigitChars[(n % 10) + 1]>>

IntStr(n) == IF n < 0 THEN <<"-">> \o NatStr(0 - n) ELSE NatStr(n)

\* ------------------------------------------------------------------------
\* Upstream station directory payloads and the station Map
\* ------------------------------------------------------------------------

\* A station as the upstream directory lists it: id and coordinates are
\* text, stationType is "R" for a reference (harmonic) station.
RawStation(id, lat, lon, type) ==
    [stationId |-> NatStr(id), lat |-> IntStr(lat), lon |-> IntStr(lon),
     stationType |-> type]

\* stationList of three stations A (0,0), B (0,1), C (10,10).
DirSmall ==
    <<RawStation(1, 0, 0, "R"), RawStation(2, 0, 1, "S"), RawStation(3, 10, 10, "R")>>

\* stationList of NumBig stations, farthest from the origin first, with
\* pairs of stations at equal distance from some points, followed by a
\* second entry for station 1.
DirBig ==
    [i \in 1..NumBig |->
        RawStation(i, (NumBig - i) \div 2, 0 - ((NumBig - i) % 2),
                   IF i % 2 = 1 THEN "R" ELSE "S")]
    \o <<RawStation(1, 0 - 20, 30, "S")>>

\* The stationList values a successful directory fetch may carry.
StationLists == {DirSmall, DirBig}

\* A JavaScript Map keyed by stationId, as the sequence of its values in
\* insertion order.
MapIndex(m, id) == CHOOSE i \in 1..Len(m) : m[i].stationId = id

MapHas(m, id) == \E i \in 1..Len(m) : m[i].stationId = id

\* Map.prototype.set: a present key keeps its place and takes the value.
MapSet(m, st) ==
    IF MapHas(m, st.stationId)
    THEN [m EXCEPT ![MapIndex(m, st.stationId)] = st]
    ELSE Append(m, st)

\* new Map(list.map((station) => [station.stationId, station]))
RECURSIVE MapInto(_, _)
MapInto(m, list) ==
    IF list = <<>> THEN m ELSE MapInto(MapSet(m, Head(list)), Tail(list))

NewMap(list) == MapInto(<<>>, list)

Undefined == [undefined |-> TRUE]

\* Map.prototype.get
MapGet(m, id) == IF MapHas(m, id) THEN m[MapIndex(m, id)] ELSE Undefined

\* ------------------------------------------------------------------------
\* Distance, validation and nearest-station search
\* ------------------------------------------------------------------------

\* Stands for @turf/distance on [lon, lat] points: zero exactly between
\* equal points, symmetric, NaN as soon as one coordinate is NaN.  The
\* value is the squared coordinate difference in tenths of a degree.
TurfDistance(from, to) ==
    IF from[1].nan \/ from[2].nan \/ to[1].nan \/ to[2].nan THEN NaN
    ELSE Num((from[1].v - to[1].v) * (from[1].v - to[1].v)
             + (from[2].v - to[2].v) * (from[2].v - to[2].v))

calculateDistance(p1, p2) ==
    LET fromPoint == <<ParseFloat(p1[2]), ParseFloat(p1[1])>>
        toPoint == <<ParseFloat(p2[2]), ParseFloat(p2[1])>>
    IN  TurfDistance(fromPoint, toPoint)

\* Variant: only the latitude is checked.
validateLatitudeOnly(lat, lon) ==
    LET la == ParseFloat(lat)
    IN  IF Less(la, Num(0 - 900)) \/ Greater(la, Num(900)) THEN "Invalid latitude" ELSE ""

\* The message of the RangeError thrown, "" when nothing is thrown.
validateLatitudeAndLongitude(lat, lon) ==
    LET la == ParseFloat(lat)
        lo == ParseFloat(lon)
    IN  IF Less(la, Num(0 - 900)) \/ Greater(la, Num(900)) THEN "Invalid latitude"
        ELSE IF Less(lo, Num(0 - 1800)) \/ Greater(lo, Num(1800)) THEN "Invalid longitude"
        ELSE ""

\* The comparator (a, b) => a.distance - b.distance; sort takes a NaN
\* result as 0.
CompareDistance(a, b) ==
    IF a.distance.nan \/ b.distance.nan THEN 0 ELSE a.distance.v - b.distance.v

\* Array.prototype.sort with that comparator (stable).
RECURSIVE InsertSorted(_, _)
InsertSorted(sorted, x) ==
    IF sorted = <<>> THEN <<x>>
    ELSE IF CompareDistance(sorted[Len(sorted)], x) > 0
         THEN Append(InsertSorted(SubSeq(sorted, 1, Len(sorted) - 1), x), sorted[Len(sorted)])
         ELSE Append(sorted, x)

\* Variant: the array is left in Map order.
SortByDistanceSkipped(arr) == arr

RECURSIVE SortByDistance(_)
SortByDistance(arr) ==
    IF arr = <<>> THEN <<>>
    ELSE InsertSorted(SortByDistance(SubSeq(arr, 1, Len(arr) - 1)), arr[Len(arr)])

Slice(arr, n) == SubSeq(arr, 1, IF Len(arr) < n THEN Len(arr) ELSE n)

\* { ...station, distance }
WithDistance(station, d) ==
    [stationId |-> station.stationId, lat |-> station.lat, lon |-> station.lon,
     stationType |-> station.stationType, distance |-> d]

\* getStationsNear after its validation: the stations of map m, nearest
\* to (lat, lon) first, at most limit of them.
getStationsNear(m, lat, lon, limit) ==
    LET stationsWithDistances ==
            [i \in 1..Len(m) |->
                WithDistance(m[i], calculateDistance(<<lat, lon>>, <<m[i].lat, m[i].lon>>))]
    IN  Slice(SortByDistance(stationsWithDistances), limit)

\* ------------------------------------------------------------------------
\* Formatting and JSON
\* ------------------------------------------------------------------------

\* A number as JSON.stringify writes it: NaN becomes null, an undefined
\* property is left out.
Json(x) ==
    IF x = Undefined THEN [json |-> "absent"]
    ELSE IF x.nan THEN [json |-> "null"]
    ELSE [json |-> "num", v |-> x.v]

\* station.distance: undefined on a station taken straight from the Map.
DistanceOf(station) ==
    IF "distance" \in DOMAIN station THEN station.distance ELSE Undefined

\* formatTideStation as it is serialized (names, state, region and the
\* time zone lookup are left out of the model).
formatTideStation(station) ==
    [id |-> station.stationId,
     lat |-> Json(ParseFloat(station.lat)),
     lon |-> Json(ParseFloat(station.lon)),
     distance |-> Json(DistanceOf(station)),
     type |-> IF station.stationType = "R" THEN "harmonic" ELSE "subordinate"]

\* The predictions array of a well-formed upstream answer.
UpstreamPredictions ==
    <<[t |-> "day0 03:12", type |-> "H", v |-> <<"4", ".", "2">>],
      [t |-> "day0 09:40", type |-> "L", v |-> <<"-", "0", ".", "3">>]>>

formatTidePrediction(prediction) ==
    [type |-> IF prediction.type = "H" THEN "high" ELSE "low",
     height |-> Json(ParseFloat(prediction.v)),
     time |-> prediction.t]

\* The value getStationPredictions resolves to, given the upstream json.
StationWithPredictions(station, predictions) ==
    [station |-> formatTideStation(station),
     predictions |-> [i \in 1..Len(predictions) |-> formatTidePrediction(predictions[i])]]

\* Variant: the range is 24 hours for each day asked.
PredictionQueryWithoutSlack(station, days) ==
    [station |-> station.stationId,
     begin_date |-> 0 - 1,
     range |-> 24 * (IF days = Undefined THEN DefaultDays ELSE days.v)]

\* The query string fetchPredictionsForTideStation builds; days defaults
\* to 2.  begin_date counts days from today.
PredictionQuery(station, days) ==
    [station |-> station.stationId,
     begin_date |-> 0 - 1,
     range |-> 24 * ((IF days = Undefined THEN DefaultDays ELSE days.v) + 2)]

\* How an upstream prediction fetch can fail, with the message of the
\* error it rejects with.
FetchFailures == {"fetch rejected", "invalid json", "no predictions"}

FailureMessage(kind) ==
    CASE kind = "fetch rejected" -> "request to upstream failed"
      [] kind = "invalid json" -> "invalid json response body"
      [] kind = "no predictions" -> "Cannot read property 'map' of undefined"

\* ------------------------------------------------------------------------
\* Requests
\* ------------------------------------------------------------------------

Methods == {"GET", "OPTIONS", "POST"}

\* Coordinate pairs as they appear in a path: in range, out of range,
\* not numbers, and with a character the routes do not admit.
CoordInputs ==
    {<<<<"0">>, <<"0">>>>,
     <<<<"9", "5">>, <<"0">>>>,
     <<<<"-", "9", "0", ".", "5">>, <<"0">>>>,
     <<<<"0">>, <<"1", "8", "1">>>>,
     <<<<"0">>, <<"-", "1", "8", "0", ".", "1">>>>,
     <<<<"-">>, <<".", ".">>>>,
     <<<<"x">>, <<"0">>>>}

IdInputs == {<<"1">>, NatStr(NumBig), <<"0">>, <<"-">>}

\* A request path: /all, /<a>, /closest/<a>,<b>, /near/<a>,<b>, or some
\* other path.
Urls ==
    {[prefix |-> "all", a |-> <<>>, b |-> <<>>], [prefix |-> "other", a |-> <<>>, b |-> <<>>]}
    \cup {[prefix |-> "id", a |-> id, b |-> <<>>] : id \in IdInputs}
    \cup {[prefix |-> p, a |-> c[1], b |-> c[2]] : p \in {"closest", "near"}, c \in CoordInputs}

\* (\d+)
AllDigits(s) == s # <<>> /\ \A i \in 1..Len(s) : IsDigit(s[i])

\* ([.-\d]+)
CoordChars(s) == s # <<>> /\ \A i \in 1..Len(s) : IsDigit(s[i]) \/ s[i] \in {".", "-"}

\* The first route of the routes Map whose pattern the path matches.
MatchedRoute(url) ==
    IF url.prefix = "id" /\ AllDigits(url.a) THEN "individualStationHandler"
    ELSE IF url.prefix = "all" THEN "allStationsHandler"
    ELSE IF url.prefix = "closest" /\ CoordChars(url.a) /\ CoordChars(url.b) THEN "closestHandler"
    ELSE IF url.prefix = "near" /\ CoordChars(url.a) /\ CoordChars(url.b) THEN "nearHandler"
    ELSE "null"

Pending == [pending |-> TRUE]

NoUrl == [prefix |-> "", a |-> <<>>, b |-> <<>>]

VARIABLES
    tideStations,   \* the station Map
    refreshPc,      \* fetchTideStations: "idle", "fetch" or "json"
    refreshHist,    \* history: "none", "good", or "failed" after a good one
    lastGood,       \* history: the Map the last successful refresh assigned
    searched,       \* history: size of the Map getStationsNear last went through
    rq              \* the request being handled, and its response

vars == <<tideStations, refreshPc, refreshHist, lastGood, searched, rq>>

\* A request that has just reached module.exports.
NewRequest(method, url) ==
    [pc |-> "start", method |-> method, url |-> url, route |-> "null",
     headers |-> {}, stations |-> <<>>, fetches |-> <<>>, results |-> <<>>,
     sent |-> <<>>, thrown |-> Undefined, returned |-> "none",
     fetching |-> <<>>, fetchFailed |-> FALSE,
     snap |-> <<>>, readDir |-> FALSE, histAtRead |-> "none", outOfOrder |-> FALSE, refreshed |-> FALSE]

\* The module is loaded: the Map is empty, the interval is set and the
\* first fetchTideStations call awaits its fetch.
Init ==
    /\ tideStations = <<>>
    /\ refreshPc = "fetch"
    /\ refreshHist = "none"
    /\ lastGood = <<>>
    /\ searched = 0
    /\ rq = [NewRequest("", NoUrl) EXCEPT !.pc = "idle"]

\* ------------------------------------------------------------------------
\* The directory refresh (fetchTideStations)
\* ------------------------------------------------------------------------

RefreshFailures == {"fetch rejected", "invalid json", "no stationList"}

\* setInterval(fetchTideStations, ONE_DAY) fires: the call awaits its
\* fetch.  (The period is far longer than a fetch, so calls do not overlap.)
RefreshTick ==
    /\ refreshPc = "idle"
    /\ refreshPc' = "fetch"
    /\ UNCHANGED <<tideStations, refreshHist, lastGood, searched, rq>>

\* The directory fetch resolves with a response; the call awaits
\* response.json().
RefreshResponse ==
    /\ refreshPc = "fetch"
    /\ refreshPc' = "json"
    /\ UNCHANGED <<tideStations, refreshHist, lastGood, searched, rq>>

\* Variant: a failed refresh empties the Map.
RefreshFailsClearing(kind) ==
    /\ \/ refreshPc = "fetch" /\ kind = "fetch rejected"
       \/ refreshPc = "json" /\ kind \in {"invalid json", "no stationList"}
    /\ refreshPc' = "idle"
    /\ refreshHist' = IF refreshHist = "none" THEN "none" ELSE "failed"
    /\ tideStations' = <<>>
    /\ UNCHANGED <<lastGood, searched, rq>>

\* Variant: a failed refresh ends the schedule.
RefreshFailsCancelling(kind) ==
    /\ \/ refreshPc = "fetch" /\ kind = "fetch rejected"
       \/ refreshPc = "json" /\ kind \in {"invalid json", "no stationList"}
    /\ refreshPc' = "cancelled"
    /\ refreshHist' = IF refreshHist = "none" THEN "none" ELSE "failed"
    /\ UNCHANGED <<tideStations, lastGood, searched, rq>>

\* fetchTideStations rejects: fetch() rejects, response.json() rejects,
\* or json.stationList is undefined and .map throws.  Nothing catches the
\* rejection and the assignment to tideStations is not reached.
RefreshFails(kind) ==
    /\ \/ refreshPc = "fetch" /\ kind = "fetch rejected"
       \/ refreshPc = "json" /\ kind \in {"invalid json", "no stationList"}
    /\ refreshPc' = "idle"
    /\ refreshHist' = IF refreshHist = "none" THEN "none" ELSE "failed"
    /\ UNCHANGED <<tideStations, lastGood, searched, rq>>

\* Variant: the stations are set into the existing Map.
RefreshInstallMerging(list) ==
    /\ refreshPc = "json"
    /\ refreshPc' = "idle"
    /\ tideStations' = MapInto(tideStations, list)
    /\ refreshHist' = "good"
    /\ lastGood' = MapInto(tideStations, list)
    /\ rq' = IF rq.pc = "await" /\ MapInto(tideStations, list) # rq.snap
             THEN [rq EXCEPT !.refreshed = TRUE] ELSE rq
    /\ UNCHANGED searched

\* response.json() resolves with a stationList: tideStations is assigned
\* a new Map.
RefreshInstall(list) ==
    /\ refreshPc = "json"
    /\ refreshPc' = "idle"
    /\ tideStations' = NewMap(list)
    /\ refreshHist' = "good"
    /\ lastGood' = NewMap(list)
    /\ rq' = IF rq.pc = "await" /\ NewMap(list) # rq.snap
             THEN [rq EXCEPT !.refreshed = TRUE] ELSE rq
    /\ UNCHANGED searched

\* ------------------------------------------------------------------------
\* The request handler (module.exports) and the route handlers
\* ------------------------------------------------------------------------

ErrorBody(message) == [kind |-> "error", message |-> message]

\* micro's send(res, status, body)
send(r, status, body) == [r EXCEPT !.sent = Append(@, [status |-> status, body |-> body])]

setHeaders(r, hs) == [r EXCEPT !.headers = @ \cup hs]

\* The two headers module.exports sets on every GET and OPTIONS request.
BaseHeaders ==
    {<<"Access-Control-Allow-Origin", "*">>, <<"Content-Type", "application/json">>}

setAccessControlHeaders(r) ==
    setHeaders(r, {<<"Access-Control-Allow-Methods", "GET, OPTIONS">>,
                   <<"Access-Control-Allow-Headers", "X-Requested-With, Content-Type, Accept">>,
                   <<"Access-Control-Allow-Max-Age", "86400">>})

setCacheHeaders(r) ==
    setHeaders(r, {<<"Expires", "now + 1 hour">>,
                   <<"Cache-Control", "public, max-age=3600">>,
                   <<"ETag", "etag(data)">>})

\* The try branch once the handler has resolved with data.
Succeed(r, data) ==
    [send(setCacheHeaders(r), 200, data) EXCEPT !.pc = "done", !.returned = "undefined"]

\* The catch branch once the handler has rejected with an error of that
\* message, and the statement after the if, which the catch falls into.
Fail(r, message) ==
    [send(send(r, 404, ErrorBody(message)), 404, ErrorBody("Not Found"))
        EXCEPT !.pc = "done", !.returned = "undefined", !.results = <<>>, !.fetching = <<>>]

\* Requests are taken one at a time: handlers share nothing but
\* tideStations, which they only read.
Arrives(method, url) ==
    /\ rq.pc = "idle"
    /\ method \in Methods
    /\ url \in Urls

\* The request past the method check and the route loop of a GET.
Routed(url) ==
    [setHeaders(NewRequest("GET", url), BaseHeaders) EXCEPT !.route = MatchedRoute(url)]

\* Reading tideStations.
ReadDirectory(r) ==
    [r EXCEPT !.readDir = TRUE, !.snap = tideStations, !.histAtRead = refreshHist]

\* Variant: the method check is missing and the request falls through to
\* the last statement.
MethodNotChecked(method, url) ==
    /\ Arrives(method, url)
    /\ method # "GET" /\ method # "OPTIONS"
    /\ rq' = [send(setHeaders(NewRequest(method, url), BaseHeaders), 404, ErrorBody("Not Found"))
                EXCEPT !.pc = "done", !.returned = "undefined"]
    /\ UNCHANGED <<tideStations, refreshPc, refreshHist, lastGood, searched>>

MethodNotAllowed(method, url) ==
    /\ Arrives(method, url)
    /\ method # "GET" /\ method # "OPTIONS"
    /\ rq' = [NewRequest(method, url) EXCEPT
                !.pc = "done",
                !.thrown = [statusCode |-> 405, message |-> "Method Not Allowed"]]
    /\ UNCHANGED <<tideStations, refreshPc, refreshHist, lastGood, searched>>

\* Variant: the preflight answer is given without the access control
\* headers.
PreflightWithoutHeaders(url) ==
    /\ Arrives("OPTIONS", url)
    /\ MatchedRoute(url) # "null"
    /\ rq' = [setHeaders(NewRequest("OPTIONS", url), BaseHeaders)
                EXCEPT !.pc = "done", !.returned = "''"]
    /\ UNCHANGED <<tideStations, refreshPc, refreshHist, lastGood, searched>>

\* OPTIONS on a path that matches a route.
Preflight(url) ==
    /\ Arrives("OPTIONS", url)
    /\ MatchedRoute(url) # "null"
    /\ rq' = [setAccessControlHeaders(setHeaders(NewRequest("OPTIONS", url), BaseHeaders))
                EXCEPT !.pc = "done", !.returned = "''"]
    /\ UNCHANGED <<tideStations, refreshPc, refreshHist, lastGood, searched>>

\* GET or OPTIONS on a path that matches no route.
NoRoute(method, url) ==
    /\ Arrives(method, url)
    /\ method \in {"GET", "OPTIONS"}
    /\ MatchedRoute(url) = "null"
    /\ rq' = [send(setHeaders(NewRequest(method, url), BaseHeaders), 404, ErrorBody("Not Found"))
                EXCEPT !.pc = "done", !.returned = "undefined"]
    /\ UNCHANGED <<tideStations, refreshPc, refreshHist, lastGood, searched>>

allStationsHandler(url) ==
    /\ Arrives("GET", url)
    /\ MatchedRoute(url) = "allStationsHandler"
    /\ rq' = Succeed(ReadDirectory(Routed(url)),
                     [kind |-> "all",
                      stations |-> [i \in 1..Len(tideStations) |->
                                        formatTideStation(tideStations[i])]])
    /\ UNCHANGED <<tideStations, refreshPc, refreshHist, lastGood, searched>>

\* Variant: the query of an undefined station is built and fetched.
StartPredictionsUnguarded(r, stations, days) ==
    [r EXCEPT !.pc = "await",
              !.stations = stations,
              !.fetches = [i \in 1..Len(stations) |->
                              IF stations[i] = Undefined
                              THEN [station |-> <<"undefined">>, begin_date |-> 0 - 1, range |-> 0]
                              ELSE PredictionQuery(stations[i], days)],
              !.results = [i \in 1..Len(stations) |-> Pending],
              !.fetching = [i \in 1..Len(stations) |-> TRUE]]

\* getStationPredictions(station, days) for each of the stations, up to
\* the await of each upstream fetch: building the query of an undefined
\* station throws.
StartPredictions(r, stations, days) ==
    IF \E i \in 1..Len(stations) : stations[i] = Undefined
    THEN Fail(r, "Cannot read property 'stationId' of undefined")
    ELSE [r EXCEPT !.pc = "await",
                   !.stations = stations,
                   !.fetches = [i \in 1..Len(stations) |-> PredictionQuery(stations[i], days)],
                   !.results = [i \in 1..Len(stations) |-> Pending],
                   !.fetching = [i \in 1..Len(stations) |-> TRUE]]

\* Variant: the station is not checked before its predictions are fetched.
individualStationHandlerUnchecked(url) ==
    /\ Arrives("GET", url)
    /\ MatchedRoute(url) = "individualStationHandler"
    /\ rq' = StartPredictions(ReadDirectory(Routed(url)),
                              <<MapGet(tideStations, url.a)>>, Num(7))
    /\ UNCHANGED <<tideStations, refreshPc, refreshHist, lastGood, searched>>

individualStationHandler(url) ==
    /\ Arrives("GET", url)
    /\ MatchedRoute(url) = "individualStationHandler"
    /\ LET r == ReadDirectory(Routed(url))
           station == MapGet(tideStations, url.a)
       IN  rq' = IF station = Undefined
                 THEN Fail(r, "Invalid station")
                 ELSE StartPredictions(r, <<station>>, Num(StationDays))
    /\ UNCHANGED <<tideStations, refreshPc, refreshHist, lastGood, searched>>

closestHandler(url) ==
    /\ Arrives("GET", url)
    /\ MatchedRoute(url) = "closestHandler"
    /\ LET r == Routed(url)
           invalid == validateLatitudeAndLongitude(url.a, url.b)
           near == getStationsNear(tideStations, url.a, url.b, DefaultLimit)
           closestStation == IF near = <<>> THEN Undefined ELSE near[1]
       IN  rq' = IF invalid # ""
                 THEN Fail(r, invalid)
                 ELSE StartPredictions(ReadDirectory(r), <<closestStation>>, Num(ClosestDays))
    /\ searched' = IF validateLatitudeAndLongitude(url.a, url.b) # ""
                   THEN searched ELSE Len(tideStations)
    /\ UNCHANGED <<tideStations, refreshPc, refreshHist, lastGood>>

\* The body a handler resolves with once all its fetches have resolved.
Data(r) ==
    CASE r.route = "nearHandler" ->
            [kind |-> "near", lat |-> Json(ParseFloat(r.url.a)),
             lon |-> Json(ParseFloat(r.url.b)), stations |-> r.results]
      [] r.route = "closestHandler" ->
            [kind |-> "closest", lat |-> Json(ParseFloat(r.url.a)),
             lon |-> Json(ParseFloat(r.url.b)), station |-> r.results[1]]
      [] r.route = "individualStationHandler" ->
            [kind |-> "station", station |-> r.results[1]]

\* Variant: the distances are written into the stations of the Map.
nearHandlerAnnotating(url) ==
    /\ Arrives("GET", url)
    /\ MatchedRoute(url) = "nearHandler"
    /\ LET r == Routed(url)
           invalid == validateLatitudeAndLongitude(url.a, url.b)
           nearbyStations == getStationsNear(tideStations, url.a, url.b, NearLimit)
       IN  rq' = IF invalid # ""
                 THEN Fail(r, invalid)
                 ELSE IF nearbyStations = <<>>
                      THEN Succeed(ReadDirectory(r), Data(ReadDirectory(r)))
                      ELSE StartPredictions(ReadDirectory(r), nearbyStations, Undefined)
    /\ searched' = IF validateLatitudeAndLongitude(url.a, url.b) # ""
                   THEN searched ELSE Len(tideStations)
    /\ tideStations' = IF validateLatitudeAndLongitude(url.a, url.b) # ""
                       THEN tideStations
                       ELSE [i \in 1..Len(tideStations) |->
                               WithDistance(tideStations[i],
                                   calculateDistance(<<url.a, url.b>>,
                                       <<tideStations[i].lat, tideStations[i].lon>>))]
    /\ UNCHANGED <<refreshPc, refreshHist, lastGood>>

nearHandler(url) ==
    /\ Arrives("GET", url)
    /\ MatchedRoute(url) = "nearHandler"
    /\ LET r == Routed(url)
           invalid == validateLatitudeAndLongitude(url.a, url.b)
           nearbyStations == getStationsNear(tideStations, url.a, url.b, NearLimit)
       IN  rq' = IF invalid # ""
                 THEN Fail(r, invalid)
                 ELSE IF nearbyStations = <<>>
                      THEN Succeed(ReadDirectory(r), Data(ReadDirectory(r)))
                      ELSE StartPredictions(ReadDirectory(r), nearbyStations, Undefined)
    /\ searched' = IF validateLatitudeAndLongitude(url.a, url.b) # ""
                   THEN searched ELSE Len(tideStations)
    /\ UNCHANGED <<tideStations, refreshPc, refreshHist, lastGood>>

\* Variant: a result is stored at the first free index.
StoreResultInArrivalOrder(results, i, value) ==
    [results EXCEPT ![CHOOSE k \in 1..Len(results) :
                        results[k] = Pending /\ \A j \in 1..(k - 1) : results[j] # Pending] = value]

\* async/map keeps the result of the item at index i at index i.
StoreResult(results, i, value) == [results EXCEPT ![i] = value]

\* The upstream fetch of station i resolves with predictions.  When it is
\* the last one the handler resolves and the response is sent.
PredictionsArrive(i) ==
    /\ rq.pc = "await"
    /\ i \in 1..Len(rq.results)
    /\ rq.fetching[i]
    /\ LET value == StationWithPredictions(rq.stations[i], UpstreamPredictions)
           r == [rq EXCEPT !.results = StoreResult(rq.results, i, value),
                           !.fetching[i] = FALSE,
                           !.outOfOrder = @ \/ \E j \in 1..(i - 1) : rq.fetching[j]]
       IN  rq' = IF \E j \in 1..Len(r.fetching) : r.fetching[j]
                 THEN r
                 ELSE Succeed(r, Data(r))
    /\ UNCHANGED <<tideStations, refreshPc, refreshHist, lastGood, searched>>

\* Variant: a failed fetch is left out and what has arrived is sent.
PredictionsFailPartial(kind) ==
    /\ rq.pc = "await"
    /\ TRUE \in {rq.fetching[i] : i \in 1..Len(rq.fetching)}
    /\ kind \in FetchFailures
    /\ LET r == [rq EXCEPT !.results = SelectSeq(rq.results, LAMBDA x : x # Pending),
                           !.fetchFailed = TRUE]
       IN  rq' = IF r.results = <<>> THEN Fail(r, FailureMessage(kind)) ELSE Succeed(r, Data(r))
    /\ UNCHANGED <<tideStations, refreshPc, refreshHist, lastGood, searched>>

\* The upstream fetch of one of the stations still awaited fails: the
\* handler rejects at once, whichever station it is.
PredictionsFail(kind) ==
    /\ rq.pc = "await"
    /\ TRUE \in {rq.fetching[i] : i \in 1..Len(rq.fetching)}
    /\ kind \in FetchFailures
    /\ rq' = [Fail(rq, FailureMessage(kind)) EXCEPT !.fetchFailed = TRUE]
    /\ UNCHANGED <<tideStations, refreshPc, refreshHist, lastGood, searched>>

\* The request is over and its objects are dropped.
RequestEnds ==
    /\ rq.pc = "done"
    /\ rq' = [NewRequest("", NoUrl) EXCEPT !.pc = "idle"]
    /\ UNCHANGED <<tideStations, refreshPc, refreshHist, lastGood, searched>>

Next ==
    \/ RefreshTick
    \/ RefreshResponse
    \/ \E kind \in RefreshFailures : RefreshFails(kind)
    \/ \E list \in StationLists : RefreshInstall(list)
    \/ \E method \in Methods, url \in Urls : MethodNotAllowed(method, url)
    \/ \E url \in Urls : Preflight(url)
    \/ \E method \in Methods, url \in Urls : NoRoute(method, url)
    \/ \E url \in Urls : allStationsHandler(url)
    \/ \E url \in Urls : individualStationHandler(url)
    \/ \E url \in Urls : closestHandler(url)
    \/ \E url \in Urls : nearHandler(url)
    \/ \E i \in 1..NearLimit : PredictionsArrive(i)
    \/ \E kind \in FetchFailures : PredictionsFail(kind)
    \/ RequestEnds

Spec == Init /\ [][Next]_vars

\* The interval timer fires as long as the process lives.
FairSpec == Spec /\ WF_vars(RefreshTick)

\* ------------------------------------------------------------------------
\* Properties
\* ------------------------------------------------------------------------

Min(a, b) == IF a < b THEN a ELSE b

\* Both coordinates parse to numbers within [-90, 90] and [-180, 180].
ValidCoordinates(url) ==
    LET la == ParseFloat(url.a)
        lo == ParseFloat(url.b)
    IN  /\ ~la.nan /\ la.v >= 0 - 900 /\ la.v <= 900
        /\ ~lo.nan /\ lo.v >= 0 - 1800 /\ lo.v <= 1800

\* A coordinate parses to a number outside its range.
OutOfRange(url) ==
    LET la == ParseFloat(url.a)
        lo == ParseFloat(url.b)
    IN  \/ ~la.nan /\ (la.v < 0 - 900 \/ la.v > 900)
        \/ ~lo.nan /\ (lo.v < 0 - 1800 \/ lo.v > 1800)

\* A coordinate does not parse to a number.
Malformed(url) == ParseFloat(url.a).nan \/ ParseFloat(url.b).nan

CoordinateRoutes == {"nearHandler", "closestHandler"}

\* The first response sent is the 200 response.
Sent200 == rq.sent # <<>> /\ rq.sent[1].status = 200

\* Every response sent is a 404 with an error body, and one was sent.
OnlyErrorsSent ==
    /\ rq.sent # <<>>
    /\ \A k \in 1..Len(rq.sent) : rq.sent[k].status = 404 /\ rq.sent[k].body.kind = "error"

\* The Maps a refresh can assign, and the empty Map of module load.
Snapshots == {<<>>} \cup {NewMap(list) : list \in StationLists}

\* The stations of a response body.
StationsOf(body) ==
    CASE body.kind = "near" -> [i \in 1..Len(body.stations) |-> body.stations[i].station]
      [] body.kind = "all" -> body.stations
      [] body.kind \in {"closest", "station"} -> <<body.station.station>>
      [] OTHER -> <<>>

\* The response station st is a station of the Map snap.
FromSnapshot(st, snap) ==
    \E i \in 1..Len(snap) :
        /\ snap[i].stationId = st.id
        /\ Json(ParseFloat(snap[i].lat)) = st.lat
        /\ Json(ParseFloat(snap[i].lon)) = st.lon
        /\ (snap[i].stationType = "R") = (st.type = "harmonic")

\* C1: a 200 response of /near for valid coordinates holds exactly
\* min(10, size of the Map read) stations, and the distance of each is a
\* number not greater than the distance of the next.
NearReturnsNearestInOrder ==
    \A k \in 1..Len(rq.sent) :
        (rq.route = "nearHandler" /\ ValidCoordinates(rq.url) /\ rq.sent[k].status = 200) =>
            LET st == StationsOf(rq.sent[k].body)
            IN  /\ Len(st) = Min(10, Len(rq.snap))
                /\ \A i \in 1..Len(st) : st[i].distance.json = "num"
                /\ \A i \in 1..(Len(st) - 1) : st[i].distance.v <= st[i + 1].distance.v

\* C1 witness: /near answered from a Map of more than 10 stations whose
\* Map order is not the distance order.
NearCutsAndSorts ==
    /\ rq.route = "nearHandler" /\ ValidCoordinates(rq.url) /\ Sent200
    /\ Len(rq.snap) > 10
    /\ Len(rq.sent[1].body.stations) = 10
    /\ rq.sent[1].body.stations[1].station.id # rq.snap[1].stationId
    /\ rq.sent[1].body.stations[1].station.distance.v
         < rq.sent[1].body.stations[10].station.distance.v

\* C2: in a 200 response of /near the i-th station is the i-th station
\* selected before the fetches were issued, whatever order they resolved in.
NearKeepsSelectionOrder ==
    \A k \in 1..Len(rq.sent) :
        (rq.route = "nearHandler" /\ rq.sent[k].status = 200) =>
            /\ Len(rq.sent[k].body.stations) = Len(rq.stations)
            /\ \A i \in 1..Len(rq.stations) :
                  rq.sent[k].body.stations[i].station = formatTideStation(rq.stations[i])

\* C2 witness: /near answered after a fetch resolved before the fetch of
\* a nearer station.
NearAnsweredOutOfOrder ==
    /\ rq.route = "nearHandler" /\ Sent200
    /\ rq.outOfOrder
    /\ Len(rq.stations) >= 2

\* C3: once a prediction fetch of /near has failed, the request is over,
\* only 404 error responses were sent, and each selected station was
\* fetched exactly once.
NearFailsAsAWhole ==
    (rq.route = "nearHandler" /\ rq.fetchFailed) =>
        /\ rq.pc = "done"
        /\ OnlyErrorsSent
        /\ Len(rq.fetches) = Len(rq.stations)
        /\ \A i \in 1..Len(rq.stations) : rq.fetches[i].station = rq.stations[i].stationId

\* C3 witness: a fetch of /near failed after another one had resolved.
NearFailedAfterArrival ==
    /\ rq.route = "nearHandler" /\ rq.fetchFailed
    /\ rq.outOfOrder
    /\ Len(rq.stations) >= 2

\* The request needs nothing but the directory to succeed.
Answerable(r) ==
    CASE r.route = "allStationsHandler" -> TRUE
      [] r.route = "individualStationHandler" -> MapHas(r.snap, r.url.a)
      [] r.route = "closestHandler" -> ValidCoordinates(r.url) /\ r.snap # <<>>
      [] r.route = "nearHandler" -> ValidCoordinates(r.url)
      [] OTHER -> FALSE

ResponseFromOneSnapshot ==
    /\ tideStations \in Snapshots
    /\ \A k \in 1..Len(rq.sent) :
          rq.sent[k].status = 200 =>
              /\ rq.snap \in Snapshots
              /\ \A i \in 1..Len(StationsOf(rq.sent[k].body)) :
                    FromSnapshot(StationsOf(rq.sent[k].body)[i], rq.snap)

\* C5 witness: /near answered after a refresh replaced the Map while the
\* request awaited its fetches.
NearAnsweredAcrossRefresh ==
    /\ rq.route = "nearHandler" /\ Sent200
    /\ rq.refreshed
    /\ tideStations # rq.snap
    /\ Len(rq.stations) >= 2

\* C6: a /near or /closest request with a coordinate out of range is over
\* without awaiting anything: no error is thrown out of the handler, only
\* 404 error responses are sent, the first with the message of the range
\* error, and no prediction fetch is issued.
OutOfRangeRejected ==
    (rq.route \in CoordinateRoutes /\ OutOfRange(rq.url)) =>
        /\ rq.pc = "done"
        /\ rq.thrown = Undefined
        /\ OnlyErrorsSent
        /\ rq.sent[1].body.message \in {"Invalid latitude", "Invalid longitude"}
        /\ rq.fetches = <<>>

\* C6 witness: a request with a longitude out of range was answered.
LongitudeRejected ==
    /\ rq.route \in CoordinateRoutes /\ OutOfRange(rq.url)
    /\ ~OutOfRange([rq.url EXCEPT !.b = <<"0">>])
    /\ rq.pc = "done"
    /\ rq.sent[1].body.message = "Invalid longitude"

\* C7 (as claimed): a /near or /closest request with a coordinate that is
\* not a number reads no station, issues no prediction fetch and gets
\* only 404 error responses.
MalformedRejected ==
    (rq.route \in CoordinateRoutes /\ Malformed(rq.url) /\ ~OutOfRange(rq.url)) =>
        /\ ~rq.readDir
        /\ rq.fetches = <<>>
        /\ rq.pc = "done"
        /\ OnlyErrorsSent

\* C8: a /<id> request whose id is no key of the Map it read is over
\* without a prediction fetch, and the first response sent is the 404
\* with message "Invalid station"; no 200 is sent.
UnknownStationRejected ==
    (rq.route = "individualStationHandler" /\ ~MapHas(rq.snap, rq.url.a)) =>
        /\ rq.pc = "done"
        /\ rq.fetches = <<>>
        /\ OnlyErrorsSent
        /\ rq.sent[1] = [status |-> 404, body |-> [kind |-> "error", message |-> "Invalid station"]]

\* C8 witness: an id unknown to a loaded directory was rejected.
UnknownIdInLoadedDirectory ==
    /\ rq.route = "individualStationHandler" /\ rq.pc = "done"
    /\ rq.snap # <<>>
    /\ ~MapHas(rq.snap, rq.url.a)

\* C9: a /closest request with valid coordinates that read an empty Map
\* is over with only 404 error responses, without a prediction fetch.
ClosestFailsOnEmptyDirectory ==
    (rq.route = "closestHandler" /\ ValidCoordinates(rq.url) /\ rq.readDir /\ rq.snap = <<>>) =>
        /\ rq.pc = "done"
        /\ OnlyErrorsSent
        /\ rq.fetches = <<>>

\* C9 witness: /closest with valid coordinates before the first refresh
\* has completed.
ClosestBeforeFirstRefresh ==
    /\ rq.route = "closestHandler" /\ ValidCoordinates(rq.url)
    /\ rq.readDir /\ rq.snap = <<>>
    /\ refreshHist = "none"
    /\ rq.pc = "done"

\* C10: a request whose method is neither GET nor OPTIONS ends with the
\* 405 error thrown: no route is matched, no header is set, nothing is
\* sent, no prediction fetch is issued and the directory is not read.
OtherMethodsThrow405 ==
    (rq.pc # "idle" /\ rq.method \notin {"GET", "OPTIONS"}) =>
        /\ rq.pc = "done"
        /\ rq.thrown = [statusCode |-> 405, message |-> "Method Not Allowed"]
        /\ rq.route = "null"
        /\ rq.headers = {}
        /\ rq.sent = <<>>
        /\ rq.fetches = <<>>
        /\ ~rq.readDir

\* C10 witness: a POST on a path that matches a route, and one on a path
\* that matches none, is possible; this is the first.
PostOnKnownRoute ==
    /\ rq.pc = "done" /\ rq.method = "POST"
    /\ MatchedRoute(rq.url) = "nearHandler"
    /\ ValidCoordinates(rq.url)

\* C11: an OPTIONS request on a path that matches a route is over at
\* once: the handler returns the empty string, the headers are the two
\* common ones and the three access control headers, the same for every
\* route, and no route handler is looked up, nothing is thrown or sent by
\* the handler, the directory is not read and no prediction fetch is issued.
PreflightShortCircuits ==
    (rq.method = "OPTIONS" /\ MatchedRoute(rq.url) # "null") =>
        /\ rq.pc = "done"
        /\ rq.returned = "''"
        /\ rq.headers =
              {<<"Access-Control-Allow-Origin", "*">>,
               <<"Content-Type", "application/json">>,
               <<"Access-Control-Allow-Methods", "GET, OPTIONS">>,
               <<"Access-Control-Allow-Headers", "X-Requested-With, Content-Type, Accept">>,
               <<"Access-Control-Allow-Max-Age", "86400">>}
        /\ rq.route = "null"
        /\ rq.thrown = Undefined
        /\ rq.sent = <<>>
        /\ ~rq.readDir
        /\ rq.fetches = <<>>

\* C11 witness: OPTIONS on /near with a latitude out of range, which a GET
\* would have rejected.
PreflightOnInvalidCoordinates ==
    /\ rq.method = "OPTIONS" /\ rq.pc = "done"
    /\ MatchedRoute(rq.url) = "nearHandler"
    /\ OutOfRange(rq.url)

\* C12: every prediction fetch issued begins one day before today; it
\* asks for 96 hours when issued by /near and for 216 hours when issued
\* by /closest or /<id>.
PredictionWindow ==
    \A i \in 1..Len(rq.fetches) :
        /\ rq.fetches[i].begin_date = 0 - 1
        /\ rq.route = "nearHandler" => rq.fetches[i].range = 96
        /\ rq.route \in {"closestHandler", "individualStationHandler"} =>
              rq.fetches[i].range = 216

\* C12 witness: /near has issued the fetches of ten stations.
NearFetchesIssued ==
    /\ rq.route = "nearHandler"
    /\ Len(rq.fetches) = 10
    /\ rq.fetches[10].range = 24 * (2 + 2)

\* C13: only a completed refresh changes the Map; no station of the Map
\* carries a distance; and the 200 response of /all lists the stations of
\* the Map as it is then, one entry each and in Map order, without
\* distance and without predictions.
ListAllIsTheSnapshot ==
    [][/\ (tideStations' # tideStations) =>
              (refreshPc = "json" /\ refreshPc' = "idle" /\ rq'.pc = rq.pc)
       /\ \A i \in 1..Len(tideStations') : "distance" \notin DOMAIN tideStations'[i]
       /\ (rq.pc = "idle" /\ rq'.route = "allStationsHandler") =>
              /\ Len(rq'.sent) = 1 /\ rq'.sent[1].status = 200
              /\ rq'.sent[1].body.kind = "all"
              /\ Len(rq'.sent[1].body.stations) = Len(tideStations')
              /\ \A i \in 1..Len(tideStations') :
                    /\ rq'.sent[1].body.stations[i].id = tideStations'[i].stationId
                    /\ rq'.sent[1].body.stations[i].distance = [json |-> "absent"]
                    /\ "predictions" \notin DOMAIN rq'.sent[1].body.stations[i]
      ]_vars

\* C13 witness: /all answered from a Map of more than 10 stations that an
\* earlier /near or /closest request had gone through.
ListAllAfterSearch ==
    /\ rq.route = "allStationsHandler" /\ Sent200
    /\ Len(rq.snap) = searched
    /\ Len(rq.snap) > 10
    /\ Len(rq.sent[1].body.stations) = Len(rq.snap)

ExactlyOneResponse ==
    (rq.method = "GET" /\ rq.pc = "done") => Len(rq.sent) = 1

====
